---- MODULE Spec2Model ----
(***************************************************************************)
(* Model of src/src/Gemini2App.js: the request dispatcher _makeRequest     *)
(* with its retry loop, RequestUrl, the content formatter and the response *)
(* helpers.                                                                *)
(*                                                                         *)
(* JavaScript values are encoded as follows.  An object is a record whose  *)
(* DOMAIN is the set of its own property names, so that `"k" in o` and     *)
(* `o.k === undefined` are questions about DOMAIN o.  A string primitive s *)
(* that can stand where an object can (an element of a part list, the      *)
(* params of generateContent) is [str |-> s]; an array there is            *)
(* [arr |-> <<...>>].  A call that throws yields [ok |-> FALSE, ...], a    *)
(* call that returns yields [ok |-> TRUE, value |-> ...].                  *)
(***************************************************************************)
EXTENDS Integers, Sequences, FiniteSets, TLC

VARIABLES
    pc,        \* position of the current call: idle, loop, break, returned, thrown
    call,      \* the entry point invoked and its arguments
    url,       \* the url object _makeRequest received
    options,   \* the UrlFetchApp options object built by _makeRequest
    retries,   \* _makeRequest: let retries
    success,   \* _makeRequest: let success
    response,  \* _makeRequest: let response
    events,    \* what the call did to its collaborators, in order
    result,    \* what the call returned or threw
    fn,        \* pure-function specifications: the function applied, or "none"
    arg,       \* pure-function specifications: the input
    ret        \* pure-function specifications: the output

vars == <<pc, call, url, options, retries, success, response, events, result, fn, arg, ret>>
dispatcherVars == <<pc, call, url, options, retries, success, response, events, result>>
pureVars == <<fn, arg, ret>>

----------------------------------------------------------------------------
(* Bounds of the model *)

\* longest part list given to _formatNewContent
MaxParts == 3
\* longest part list of a response candidate
MaxRespParts == 3

----------------------------------------------------------------------------
(* JavaScript helpers *)

Null == [null |-> TRUE]
Return(v) == [ok |-> TRUE, value |-> v]
Throw(name, message) == [ok |-> FALSE, name |-> name, message |-> message]

Has(obj, k) == k \in DOMAIN obj

\* `${obj.k}`: a missing property interpolates as "undefined"
Interpolate(obj, k) == IF Has(obj, k) THEN obj[k] ELSE "undefined"

SeqsUpTo(S, n) == UNION {[1..m -> S] : m \in 0..n}

RECURSIVE Join(_)
Join(strs) == IF strs = <<>> THEN "" ELSE Head(strs) \o Join(Tail(strs))

RECURSIVE JoinWith(_, _)
JoinWith(strs, sep) ==
    IF strs = <<>> THEN ""
    ELSE IF Len(strs) = 1 THEN Head(strs)
    ELSE Head(strs) \o sep \o JoinWith(Tail(strs), sep)

Map(f(_), s) == [i \in 1..Len(s) |-> f(s[i])]

----------------------------------------------------------------------------
(* Task, Model, ModelVersion enums *)

Task_COUNT_TOKENS == "count_tokens"
Task_GENERATE_CONTENT == "generate_content"
Model_DIALOGUE == "dialogue"
Model_CONTENT_CREATOR == "content-creator"
ModelVersion_V1 == "v1"
ModelVersion_V2 == "v2"

----------------------------------------------------------------------------
(* RequestUrl *)

RequestUrl(model, task, auth, useSSL, requestOptions) ==
    [model |-> model, task |-> task, auth |-> auth, useSSL |-> useSSL,
     requestOptions |-> requestOptions]

toString(u) ==
    LET base == "https://" \o u.model \o ".googleapis.com/" \o u.task
    IN  IF u.model = Model_CONTENT_CREATOR
        THEN base \o "?model_version=" \o Interpolate(u.requestOptions, "modelVersion")
        ELSE base

----------------------------------------------------------------------------
(* Content formatting *)

typeofString(x) == Has(x, "str")

MixedMessage ==
    "FunctionResponse cannot be mixed with other types of parts in the request for sending a chat message."
EmptyMessage == "No content is provided for sending a chat message."

\* _assignRoleToPartsAndValidateSendMessageRequest without the check for mixed parts
_assignRoleNoMixedCheck(parts) ==
    LET isFn(p) == Has(p, "functionResponse")
        isUser(p) == ~Has(p, "functionResponse")
        userContent == [role |-> "user", parts |-> SelectSeq(parts, isUser)]
        functionContent == [role |-> "function", parts |-> SelectSeq(parts, isFn)]
        hasUserContent == \E i \in 1..Len(parts) : isUser(parts[i])
        hasFunctionContent == \E i \in 1..Len(parts) : isFn(parts[i])
    IN  IF ~hasUserContent /\ ~hasFunctionContent THEN Throw("Error", EmptyMessage)
        ELSE IF hasUserContent THEN Return(userContent)
        ELSE Return(functionContent)

_assignRoleToPartsAndValidateSendMessageRequest(parts) ==
    LET isFn(p) == Has(p, "functionResponse")
        isUser(p) == ~Has(p, "functionResponse")
        userContent == [role |-> "user", parts |-> SelectSeq(parts, isUser)]
        functionContent == [role |-> "function", parts |-> SelectSeq(parts, isFn)]
        hasUserContent == \E i \in 1..Len(parts) : isUser(parts[i])
        hasFunctionContent == \E i \in 1..Len(parts) : isFn(parts[i])
    IN  IF hasUserContent /\ hasFunctionContent THEN Throw("Error", MixedMessage)
        ELSE IF ~hasUserContent /\ ~hasFunctionContent THEN Throw("Error", EmptyMessage)
        ELSE IF hasUserContent THEN Return(userContent)
        ELSE Return(functionContent)

\* _formatNewContent putting each new part in front (unshift for push)
_formatNewContentUnshift(request) ==
    LET toPart(partOrString) ==
            IF typeofString(partOrString) THEN [text |-> partOrString.str]
            ELSE partOrString
        n == Len(request.arr)
    IN  IF typeofString(request)
        THEN _assignRoleToPartsAndValidateSendMessageRequest(<<[text |-> request.str]>>)
        ELSE IF Has(request, "arr")
        THEN _assignRoleToPartsAndValidateSendMessageRequest(
                 [i \in 1..n |-> toPart(request.arr[n + 1 - i])])
        ELSE Throw("TypeError", "request is not iterable")

_formatNewContent(request) ==
    LET toPart(partOrString) ==
            IF typeofString(partOrString) THEN [text |-> partOrString.str]
            ELSE partOrString
    IN  IF typeofString(request)
        THEN _assignRoleToPartsAndValidateSendMessageRequest(<<[text |-> request.str]>>)
        ELSE IF Has(request, "arr")
        THEN _assignRoleToPartsAndValidateSendMessageRequest(Map(toPart, request.arr))
        ELSE Throw("TypeError", "request is not iterable")

\* _formatGenerateContentInput wrapping the new parts without validating them
_formatGenerateContentInputNoValidation(params) ==
    LET toPart(partOrString) ==
            IF typeofString(partOrString) THEN [text |-> partOrString.str]
            ELSE partOrString
    IN  IF Has(params, "contents") THEN Return(params)
        ELSE IF typeofString(params)
        THEN Return([contents |-> <<[role |-> "user", parts |-> <<[text |-> params.str]>>]>>])
        ELSE IF Has(params, "arr")
        THEN Return([contents |-> <<[role |-> "user", parts |-> Map(toPart, params.arr)]>>])
        ELSE Throw("TypeError", "request is not iterable")

\* _formatGenerateContentInput taking an empty contents array for a missing one
_formatGenerateContentInputEmptyIsMissing(params) ==
    IF Has(params, "contents") /\ params.contents # <<>>
    THEN Return(params)
    ELSE LET content == _formatNewContent(params)
         IN  IF content.ok THEN Return([contents |-> <<content.value>>]) ELSE content

_formatGenerateContentInput(params) ==
    \* contents, when present, is an array, which is truthy even when empty
    IF Has(params, "contents")
    THEN Return(params)
    ELSE LET content == _formatNewContent(params)
         IN  IF content.ok THEN Return([contents |-> <<content.value>>]) ELSE content

----------------------------------------------------------------------------
(* Response helpers *)

\* response.candidates?.[0]?.content?.parts, or <<>> when the chain is undefined
firstCandidateParts(resp) ==
    IF Has(resp, "candidates") /\ Len(resp.candidates) > 0
       /\ Has(resp.candidates[1], "content")
       /\ Has(resp.candidates[1].content, "parts")
    THEN resp.candidates[1].content.parts
    ELSE <<>>

text(resp) ==
    LET parts == firstCandidateParts(resp)
        \* Array.prototype.join renders an undefined element as ""
        textOf(p) == IF Has(p, "text") THEN p.text ELSE ""
    IN  IF Len(parts) > 0 /\ Has(parts[1], "text") /\ parts[1].text # ""
        THEN Join(Map(textOf, parts))
        ELSE ""

getFunctionCall(resp) ==
    LET parts == firstCandidateParts(resp)
    \* the result is an object or a string: the string "" is [str |-> ""]
    IN  IF Len(parts) > 0 /\ Has(parts[1], "functionCall")
        THEN parts[1].functionCall
        ELSE [str |-> ""]

----------------------------------------------------------------------------
(* JSON.stringify and JSON.parse on the shapes the calls use *)

Quote(s) == "\"" \o s \o "\""

\* an object whose property values are strings, own keys in insertion order
StringifyFlat(obj, keys) ==
    LET present == SelectSeq(keys, LAMBDA k : Has(obj, k))
        member(k) == Quote(k) \o ":" \o Quote(obj[k])
    IN  "{" \o JoinWith(Map(member, present), ",") \o "}"

StringifyPart(p) ==
    LET keys == SelectSeq(<<"text", "inlineData", "functionCall", "functionResponse">>,
                          LAMBDA k : Has(p, k))
        member(k) ==
            Quote(k) \o ":" \o
            (IF k = "text" THEN Quote(p[k])
             ELSE IF k = "inlineData" THEN StringifyFlat(p[k], <<"data", "mimeType">>)
             ELSE StringifyFlat(p[k], <<"name", "args", "response">>))
    IN  "{" \o JoinWith(Map(member, keys), ",") \o "}"

StringifyContent(c) ==
    "{" \o Quote("role") \o ":" \o Quote(c.role) \o "," \o Quote("parts") \o ":["
        \o JoinWith(Map(StringifyPart, c.parts), ",") \o "]}"

\* JSON.stringify of a request body: {contents: [...]} with an optional model
JSONstringify(params) ==
    "{" \o Quote("contents") \o ":[" \o JoinWith(Map(StringifyContent, params.contents), ",")
        \o "]" \o (IF Has(params, "model") THEN "," \o Quote("model") \o ":" \o Quote(params.model)
                   ELSE "") \o "}"

\* the text of a response object as the server serialises it
StringifyResponse(r) ==
    IF Has(r, "candidates")
    THEN "{" \o Quote("candidates") \o ":["
         \o JoinWith(Map(LAMBDA c : "{" \o Quote("content") \o ":" \o StringifyContent(c.content) \o "}",
                         r.candidates), ",")
         \o "]}"
    ELSE StringifyFlat(r, <<"promptFeedback">>)

----------------------------------------------------------------------------
(* Inputs of the dispatcher specification *)

ApiKeyAuth == [apiKey |-> "KEY"]
ServiceAccountAuth ==
    [type |-> "service_account", private_key |-> "PK", client_email |-> "sa@p1"]
BothAuth ==
    [apiKey |-> "KEY", type |-> "service_account", private_key |-> "PK",
     client_email |-> "sa@p1"]
AmbientAuth == [project_id |-> "p1", region |-> "r1"]
AuthConfigs == {ApiKeyAuth, ServiceAccountAuth, BothAuth, AmbientAuth}

Models == {Model_DIALOGUE, Model_CONTENT_CREATOR}

\* requestOptions: {} (the default), {modelVersion: "v1"}, {modelVersion: "v2"}
EmptyObject == [k \in {} |-> ""]
RequestOptionsSet ==
    {EmptyObject, [modelVersion |-> ModelVersion_V1], [modelVersion |-> ModelVersion_V2]}

TextPart(s) == [text |-> s]
ImagePart(d) == [inlineData |-> [data |-> d, mimeType |-> "image/png"]]
FunctionResponsePart(n) == [functionResponse |-> [name |-> n, response |-> "r"]]
FunctionCallPart(n) == [functionCall |-> [name |-> n, args |-> "x"]]

History ==
    <<[role |-> "user", parts |-> <<TextPart("hi")>>],
      [role |-> "model", parts |-> <<TextPart("hello")>>]>>

\* params of generateContent: a prompt string, part lists (valid, empty, mixed,
\* all function responses), a ready request object, an object without contents
GenerateParams ==
    {[str |-> "hello"],
     [arr |-> <<[str |-> "prompt"], ImagePart("img1"), ImagePart("img2")>>],
     [arr |-> <<>>],
     [arr |-> <<TextPart("t"), FunctionResponsePart("f")>>],
     [arr |-> <<FunctionResponsePart("f")>>],
     [contents |-> History],
     [prompt |-> "hello"]}

CountParams == {[contents |-> History]}

\* the responses the server may give: 200 with a JSON body, or an error status
ResponseObjects ==
    {[candidates |-> <<[content |-> [role |-> "model",
                                    parts |-> <<TextPart("a"), TextPart("b")>>]]>>],
     [candidates |-> <<[content |-> [role |-> "model",
                                    parts |-> <<FunctionCallPart("f"), TextPart("a")>>]]>>]}
ErrorBody == StringifyFlat([error |-> "failed"], <<"error">>)
ErrorCodes == {201, 404, 429, 499, 500, 503, 599, 600}
HttpResponses ==
    {[code |-> 200, contentText |-> StringifyResponse(r)] : r \in ResponseObjects}
    \cup {[code |-> c, contentText |-> ErrorBody] : c \in ErrorCodes}

\* JSON.parse of a response body
JSONparse(txt) == CHOOSE r \in ResponseObjects : StringifyResponse(r) = txt

\* what the token exchange of the OAuth2 service may do
ExchangeOutcomes == {Return("sa-token"), Throw("Error", "Access not granted")}
\* ScriptApp.getOAuthToken()
OAuthToken == "ambient-token"

\* url objects handed to _makeRequest directly: a RequestUrl, and objects that
\* carry the apiKey and _auth properties the method reads
DirectUrls ==
    LET u == RequestUrl(Model_DIALOGUE, Task_GENERATE_CONTENT, ServiceAccountAuth, FALSE,
                        EmptyObject)
    IN  {u,
         [model |-> u.model, task |-> u.task, requestOptions |-> EmptyObject,
          apiKey |-> "KEY", _auth |-> ServiceAccountAuth],
         [model |-> u.model, task |-> u.task, requestOptions |-> EmptyObject,
          _auth |-> ServiceAccountAuth],
         [model |-> u.model, task |-> u.task, requestOptions |-> EmptyObject,
          _auth |-> AmbientAuth]}
DirectBody == JSONstringify([contents |-> History])

----------------------------------------------------------------------------
(* _makeRequest *)

maxRetries == 5

Undefined == [undefined |-> TRUE]

\* _credentialsForVertexAI whose catch block returns an object without a token
_credentialsForVertexAIEmptyObject(auth, exchange) ==
    IF exchange.ok
    THEN [value |-> [accessToken |-> exchange.value],
          events |-> <<[ev |-> "token", source |-> "service_account", ok |-> TRUE]>>]
    ELSE [value |-> [accessToken |-> "undefined"],
          events |-> <<[ev |-> "token", source |-> "service_account", ok |-> FALSE],
                       [ev |-> "log", level |-> "error", message |-> exchange.message]>>]

\* the try block returns the token, the catch block logs and returns nothing
_credentialsForVertexAI(auth, exchange) ==
    IF exchange.ok
    THEN [value |-> [accessToken |-> exchange.value],
          events |-> <<[ev |-> "token", source |-> "service_account", ok |-> TRUE]>>]
    ELSE [value |-> Undefined,
          events |-> <<[ev |-> "token", source |-> "service_account", ok |-> FALSE],
                       [ev |-> "log", level |-> "error", message |-> exchange.message]>>]

MakeOptions(headers, body) ==
    [method |-> "POST", contentType |-> "application/json", muteHttpExceptions |-> TRUE,
     headers |-> headers, payload |-> body]

\* lines 46-65: the options object and the credential header; the outcome is
\* the options and the collaborator events, or the TypeError of reading
\* accessToken of undefined
ResolveOptions(u, body, exchange) ==
    IF Has(u, "apiKey") /\ u.apiKey # ""
    THEN [ok |-> TRUE, events |-> <<>>,
          value |-> MakeOptions("X-Goog-Api-Key" :> u.apiKey, body)]
    ELSE IF Has(u, "_auth") /\ Has(u._auth, "type") /\ u._auth.type = "service_account"
    THEN LET credentials == _credentialsForVertexAI(u._auth, exchange)
         IN  IF credentials.value = Undefined
             THEN [ok |-> FALSE, events |-> credentials.events,
                   name |-> "TypeError",
                   message |-> "Cannot read properties of undefined (reading 'accessToken')"]
             ELSE [ok |-> TRUE, events |-> credentials.events,
                   value |-> MakeOptions(
                       "Authorization" :> ("Bearer " \o credentials.value.accessToken), body)]
    ELSE [ok |-> TRUE, events |-> <<[ev |-> "token", source |-> "ScriptApp", ok |-> TRUE]>>,
          value |-> MakeOptions("Authorization" :> ("Bearer " \o OAuthToken), body)]

\* IsTransient without the upper end of the 5xx range
IsTransientNoUpper(responseCode) ==
    responseCode = 429 \/ responseCode >= 500

IsTransient(responseCode) ==
    responseCode = 429 \/ (responseCode >= 500 /\ responseCode < 600)

\* BackoffDelay with the arguments of Math.pow swapped
BackoffDelaySwapped(r) == (r ^ 2) * 1000

\* BackoffDelay computed after the increment of retries
BackoffDelayAfterIncrement(r) == (2 ^ (r + 1)) * 1000

\* Math.pow(2, retries) * 1000
BackoffDelay(r) == (2 ^ r) * 1000

\* LoopCondition with <= for <
LoopConditionInclusive(r, s) == r <= maxRetries /\ ~s

\* LoopCondition that does not look at the success flag
LoopConditionNoSuccess(r, s) == r < maxRetries

LoopCondition(r, s) == r < maxRetries /\ ~s

\* FailureMessage counting from one
FailureMessageOffByOne(r) == "Failed to call API after " \o ToString(r + 1) \o " retries."

FailureMessage(r) == "Failed to call API after " \o ToString(r) \o " retries."

\* the call of _makeRequest(u, body) up to the head of the retry loop
EnterMakeRequest(u, body, exchange) ==
    LET o == ResolveOptions(u, body, exchange)
    IN  /\ url' = u
        /\ retries' = 0
        /\ success' = FALSE
        /\ response' = Undefined
        /\ events' = o.events
        /\ IF o.ok
           THEN /\ options' = o.value
                /\ pc' = "loop"
                /\ result' = Null
           ELSE /\ options' = MakeOptions(EmptyObject, body)
                /\ pc' = "thrown"
                /\ result' = Throw(o.name, o.message)

Idle ==
    /\ pc = "idle"
    /\ fn = "none"

\* generateContent(auth, model, params, requestOptions)
GenerateContent ==
    \E auth \in AuthConfigs, model \in Models, params \in GenerateParams,
       requestOptions \in RequestOptionsSet, exchange \in ExchangeOutcomes :
        /\ Idle
        /\ call' = [entry |-> "generateContent", auth |-> auth, model |-> model,
                    params |-> params, requestOptions |-> requestOptions]
        /\ LET formattedParams == _formatGenerateContentInput(params)
           IN  IF formattedParams.ok
               THEN EnterMakeRequest(
                        RequestUrl(model, Task_GENERATE_CONTENT, auth, FALSE, requestOptions),
                        JSONstringify(formattedParams.value), exchange)
               ELSE /\ pc' = "thrown"
                    /\ result' = formattedParams
                    /\ UNCHANGED <<url, options, retries, success, response, events>>
        /\ UNCHANGED pureVars

\* _countTokens(auth, model, params)
CountTokens ==
    \E auth \in AuthConfigs, model \in Models, params \in CountParams,
       exchange \in ExchangeOutcomes :
        /\ Idle
        /\ call' = [entry |-> "_countTokens", auth |-> auth, model |-> model,
                    params |-> params]
        /\ EnterMakeRequest(
               RequestUrl(model, Task_COUNT_TOKENS, auth, FALSE, EmptyObject),
               JSONstringify([contents |-> params.contents, model |-> model]), exchange)
        /\ UNCHANGED pureVars

\* _makeRequest(url, body) called on its own
MakeRequest ==
    \E u \in DirectUrls, exchange \in ExchangeOutcomes :
        /\ Idle
        /\ call' = [entry |-> "_makeRequest", url |-> u, body |-> DirectBody]
        /\ EnterMakeRequest(u, DirectBody, exchange)
        /\ UNCHANGED pureVars

\* Fetch that asks for a fresh ambient token before every retry
FetchRefreshingToken ==
    /\ pc = "loop"
    /\ LoopCondition(retries, success)
    /\ \E resp \in HttpResponses :
        LET post == [ev |-> "fetch", url |-> toString(url), options |-> options,
                     code |-> resp.code, contentText |-> resp.contentText]
        IN  IF resp.code = 200
            THEN /\ response' = JSONparse(resp.contentText)
                 /\ success' = TRUE
                 /\ events' = Append(events, post)
                 /\ UNCHANGED <<pc, retries, options>>
            ELSE IF IsTransient(resp.code)
            THEN /\ response' = resp
                 /\ events' = events \o
                        <<post,
                          [ev |-> "log", level |-> "warn",
                           message |-> "Retrying after " \o ToString(resp.code)
                                       \o " response from the server."],
                          [ev |-> "sleep", ms |-> BackoffDelay(retries)],
                          [ev |-> "token", source |-> "ScriptApp", ok |-> TRUE]>>
                 /\ options' = [options EXCEPT !.headers =
                        "Authorization" :> ("Bearer " \o OAuthToken \o "-"
                                            \o ToString(retries + 1))]
                 /\ retries' = retries + 1
                 /\ UNCHANGED <<pc, success>>
            ELSE /\ response' = resp
                 /\ events' = events \o
                        <<post,
                          [ev |-> "log", level |-> "error",
                           message |-> "Request failed with response code "
                                       \o ToString(resp.code) \o " - " \o resp.contentText]>>
                 /\ pc' = "break"
                 /\ UNCHANGED <<retries, success, options>>
    /\ UNCHANGED <<call, url, result>>
    /\ UNCHANGED pureVars

\* one iteration of the retry loop, lines 68-86
Fetch ==
    /\ pc = "loop"
    /\ LoopCondition(retries, success)
    /\ \E resp \in HttpResponses :
        LET post == [ev |-> "fetch", url |-> toString(url), options |-> options,
                     code |-> resp.code, contentText |-> resp.contentText]
        IN  IF resp.code = 200
            THEN /\ response' = JSONparse(resp.contentText)
                 /\ success' = TRUE
                 /\ events' = Append(events, post)
                 /\ UNCHANGED <<pc, retries>>
            ELSE IF IsTransient(resp.code)
            THEN /\ response' = resp
                 /\ events' = events \o
                        <<post,
                          [ev |-> "log", level |-> "warn",
                           message |-> "Retrying after " \o ToString(resp.code)
                                       \o " response from the server."],
                          [ev |-> "sleep", ms |-> BackoffDelay(retries)]>>
                 /\ retries' = retries + 1
                 /\ UNCHANGED <<pc, success>>
            ELSE /\ response' = resp
                 /\ events' = events \o
                        <<post,
                          [ev |-> "log", level |-> "error",
                           message |-> "Request failed with response code "
                                       \o ToString(resp.code) \o " - " \o resp.contentText]>>
                 /\ pc' = "break"
                 /\ UNCHANGED <<retries, success>>
    /\ UNCHANGED <<call, url, options, result>>
    /\ UNCHANGED pureVars

\* after the loop, lines 88-91, and the caller's wrapping of the result
Finish ==
    /\ \/ pc = "loop" /\ ~LoopCondition(retries, success)
       \/ pc = "break"
    /\ IF ~success
       THEN /\ pc' = "thrown"
            /\ result' = Throw("Error", FailureMessage(retries))
       ELSE /\ pc' = "returned"
            /\ result' = Return(IF call.entry = "generateContent"
                                THEN [response |-> response]
                                ELSE response)
    /\ UNCHANGED <<call, url, options, retries, success, response, events>>
    /\ UNCHANGED pureVars

Init ==
    /\ pc = "idle"
    /\ call = Null
    /\ url = Null
    /\ options = Null
    /\ retries = 0
    /\ success = FALSE
    /\ response = Undefined
    /\ events = <<>>
    /\ result = Null
    /\ fn = "none"
    /\ arg = Null
    /\ ret = Null

Next == GenerateContent \/ CountTokens \/ MakeRequest \/ Fetch \/ Finish

Spec == Init /\ [][Next]_vars

\* _makeRequest called on its own.  The method is synchronous:
\* UrlFetchApp.fetch and Utilities.sleep return, so an iteration that can run
\* runs, and so does the code after the loop.
NextMakeRequest == MakeRequest \/ Fetch \/ Finish

FairMakeRequestSpec ==
    Init /\ [][NextMakeRequest]_vars /\ WF_vars(Fetch) /\ WF_vars(Finish)

----------------------------------------------------------------------------
(* The content formatter on its own: every request up to MaxParts elements *)

FormatElements ==
    {[str |-> "s"], TextPart("t"), ImagePart("i"), FunctionResponsePart("f"),
     FunctionResponsePart("g")}
FormatRequests ==
    {[str |-> "hello"], [str |-> ""]}
    \cup {[arr |-> a] : a \in SeqsUpTo(FormatElements, MaxParts)}

DispatcherIdle ==
    /\ pc = "idle"
    /\ call = Null
    /\ url = Null
    /\ options = Null
    /\ retries = 0
    /\ success = FALSE
    /\ response = Undefined
    /\ events = <<>>
    /\ result = Null

InitFormat ==
    /\ DispatcherIdle
    /\ fn = "none"
    /\ arg \in FormatRequests
    /\ ret = Null

ApplyFormatNewContent ==
    /\ fn = "none"
    /\ fn' = "_formatNewContent"
    /\ ret' = _formatNewContent(arg)
    /\ UNCHANGED arg
    /\ UNCHANGED dispatcherVars

NextFormat == ApplyFormatNewContent

SpecFormat == InitFormat /\ [][NextFormat]_vars

----------------------------------------------------------------------------
(* _formatGenerateContentInput on its own: the requests of the formatter   *)
(* and request objects that already have contents, well formed or not      *)

ContentsParams ==
    {[contents |-> History],
     [contents |-> History, generationConfig |-> "c"],
     [contents |-> <<>>],
     [contents |-> <<[role |-> "user", parts |-> <<>>]>>],
     [contents |-> <<[role |-> "user",
                      parts |-> <<TextPart("t"), FunctionResponsePart("f")>>]>>]}

InitFormatInput ==
    /\ DispatcherIdle
    /\ fn = "none"
    /\ arg \in FormatRequests \cup ContentsParams
    /\ ret = Null

ApplyFormatGenerateContentInput ==
    /\ fn = "none"
    /\ fn' = "_formatGenerateContentInput"
    /\ ret' = _formatGenerateContentInput(arg)
    /\ UNCHANGED arg
    /\ UNCHANGED dispatcherVars

NextFormatInput == ApplyFormatGenerateContentInput

SpecFormatInput == InitFormatInput /\ [][NextFormatInput]_vars

----------------------------------------------------------------------------
(* The response helpers on their own: every response whose first candidate *)
(* has up to MaxRespParts parts                                            *)

ResponseParts == {TextPart("a"), TextPart("b"), FunctionCallPart("f"), ImagePart("i")}
Candidate(parts) == [content |-> [role |-> "model", parts |-> parts]]
ParsedResponses ==
    {[promptFeedback |-> "blocked"], [candidates |-> <<>>]}
    \cup {[candidates |-> <<Candidate(ps)>>] : ps \in SeqsUpTo(ResponseParts, MaxRespParts)}
    \cup {[candidates |-> <<Candidate(ps), Candidate(<<TextPart("z")>>)>>] :
            ps \in SeqsUpTo(ResponseParts, MaxRespParts)}

InitHelpers ==
    /\ DispatcherIdle
    /\ fn = "none"
    /\ arg \in ParsedResponses
    /\ ret = Null

\* response.text() on the response _addHelpers returned
ApplyText ==
    /\ fn = "none"
    /\ fn' = "text"
    /\ ret' = [value |-> text(arg)]
    /\ UNCHANGED arg
    /\ UNCHANGED dispatcherVars

\* response.getFunctionCall() on the response _addHelpers returned
ApplyGetFunctionCall ==
    /\ fn = "none"
    /\ fn' = "getFunctionCall"
    /\ ret' = [value |-> getFunctionCall(arg)]
    /\ UNCHANGED arg
    /\ UNCHANGED dispatcherVars

NextHelpers == ApplyText \/ ApplyGetFunctionCall

SpecHelpers == InitHelpers /\ [][NextHelpers]_vars

----------------------------------------------------------------------------
(* What a call has done so far, read off the event history *)

IsFetch(e) == e.ev = "fetch"
IsSleep(e) == e.ev = "sleep"
IsLog(e) == e.ev = "log"
IsToken(e) == e.ev = "token"

Fetches == SelectSeq(events, IsFetch)
Sleeps == SelectSeq(events, IsSleep)
Codes == [i \in 1..Len(Fetches) |-> Fetches[i].code]

\* position in events of the n-th POST
FetchIndex(n) ==
    CHOOSE k \in 1..Len(events) :
        /\ IsFetch(events[k])
        /\ Cardinality({j \in 1..k : IsFetch(events[j])}) = n

\* the sleeps after the n-th POST and before the next one (or the end)
SleepsAfter(n) ==
    LET from == FetchIndex(n) + 1
        to == IF n < Len(Fetches) THEN FetchIndex(n + 1) - 1 ELSE Len(events)
    IN  SelectSeq(SubSeq(events, from, to), IsSleep)

RECURSIVE SumMs(_)
SumMs(s) == IF s = <<>> THEN 0 ELSE Head(s).ms + SumMs(Tail(s))

\* the status classes as the specification words them
TransientStatus(c) == c = 429 \/ c \in 500..599
PermanentStatus(c) == c # 200 /\ ~TransientStatus(c)
AllTransientUpTo(k) == \A j \in 1..k : TransientStatus(Codes[j])

Terminated == pc \in {"returned", "thrown"}

----------------------------------------------------------------------------
(* Claims about the retry loop, checked under Spec *)

\* C1: while every response is transient (429 or 5xx) the dispatcher goes on
\* to the next POST until it has issued exactly 5, then fails; the sleep
\* between attempt i+1 and attempt i+2 is one sleep of 2^i seconds, so the
\* delays between attempts are strictly increasing.
C1_TransientRetriesFiveTimesWithBackoff ==
    LET n == Len(Fetches)
    IN  (n > 0 /\ AllTransientUpTo(n)) =>
            /\ n <= 5
            /\ pc \in {"loop", "thrown"}
            /\ (pc = "loop" /\ n < 5) => ENABLED Fetch
            /\ (pc = "loop" /\ n = 5) => (~ENABLED Fetch /\ ENABLED Finish)
            /\ pc = "thrown" => (n = 5 /\ ~result.ok)
            /\ \A i \in 0..(n - 2) :
                   /\ Len(SleepsAfter(i + 1)) = 1
                   /\ SleepsAfter(i + 1)[1].ms = (2 ^ i) * 1000
            /\ \A i, j \in 1..(n - 1) :
                   i < j => SleepsAfter(i)[1].ms < SleepsAfter(j)[1].ms

C1_Witness ==
    /\ pc = "thrown"
    /\ Codes = <<429, 500, 503, 599, 429>>
    /\ SleepsAfter(4)[1].ms = 8000

\* C2: a response that is neither 200 nor 429 nor 5xx is the last thing the
\* dispatcher does on the network: no POST and no sleep follows it and the
\* call fails; when it is the first response there is one attempt and no delay.
C2_PermanentFailureStopsAtOnce ==
    \A k \in 1..Len(Fetches) :
        PermanentStatus(Codes[k]) =>
            /\ k = Len(Fetches)
            /\ SleepsAfter(k) = <<>>
            /\ ~ENABLED Fetch
            /\ pc \in {"break", "thrown"}
            /\ pc = "break" => ENABLED Finish
            /\ pc = "thrown" => ~result.ok
            /\ k = 1 => (Len(Fetches) = 1 /\ Sleeps = <<>>)

C2_Witness ==
    /\ pc = "thrown"
    /\ Codes = <<404>>
    /\ Sleeps = <<>>

\* C3: when the k-th response is the first 200 and the k-1 before it were
\* transient, the call succeeds after exactly k POSTs with the parsed body of
\* the k-th response, no POST follows, and it has slept 2^(k-1) - 1 seconds in
\* total (3 seconds for 503, 503, 200).
C3_SuccessOnKthAttempt ==
    \A k \in 1..Len(Fetches) :
        (Codes[k] = 200 /\ AllTransientUpTo(k - 1)) =>
            /\ k <= 5
            /\ k = Len(Fetches)
            /\ ~ENABLED Fetch
            /\ SumMs(Sleeps) = ((2 ^ (k - 1)) - 1) * 1000
            /\ pc \in {"loop", "returned"}
            /\ pc = "loop" => ENABLED Finish
            /\ pc = "returned" =>
                   /\ result.ok
                   /\ \E r \in ResponseObjects :
                          /\ StringifyResponse(r) = Fetches[k].contentText
                          /\ r = IF call.entry = "generateContent"
                                 THEN result.value.response
                                 ELSE result.value

C3_Witness ==
    /\ pc = "returned"
    /\ Codes = <<503, 503, 200>>
    /\ SumMs(Sleeps) = 3000

\* C6: a call that fails after nothing but transient responses throws an
\* error whose number is the number of POSTs made, which is 5.
C6_ExhaustionReportsAttempts ==
    (pc = "thrown" /\ Len(Fetches) > 0 /\ AllTransientUpTo(Len(Fetches))) =>
        /\ ~result.ok
        /\ result.message =
               "Failed to call API after " \o ToString(Len(Fetches)) \o " retries."
        /\ result.message = "Failed to call API after 5 retries."

C6_Witness ==
    /\ pc = "thrown"
    /\ Len(Fetches) = 5
    /\ Codes[5] = 599
    /\ result.message = "Failed to call API after 5 retries."

----------------------------------------------------------------------------
(* Claims about the credential header and the URL, checked under Spec *)

\* the header the priority order of the auth configuration asks for
HeaderByPriority(auth, exchangedToken) ==
    IF Has(auth, "apiKey") THEN "X-Goog-Api-Key" :> auth.apiKey
    ELSE IF Has(auth, "type") /\ auth.type = "service_account"
    THEN "Authorization" :> ("Bearer " \o exchangedToken)
    ELSE "Authorization" :> ("Bearer " \o OAuthToken)

\* C4: every POST of generateContent and _countTokens carries exactly one
\* credential header, chosen from the auth configuration of the call: the API
\* key if it has one, else the exchanged service-account token if its type is
\* service_account, else the ambient OAuth token.
C4_CredentialByPriority ==
    (pc # "idle" /\ call.entry \in {"generateContent", "_countTokens"}) =>
        \A i \in 1..Len(Fetches) :
            LET headers == Fetches[i].options.headers
            IN  /\ Cardinality(DOMAIN headers) = 1
                /\ headers = HeaderByPriority(call.auth, "sa-token")

ExchangeFailed ==
    \E i \in 1..Len(events) :
        /\ IsToken(events[i])
        /\ events[i].source = "service_account"
        /\ ~events[i].ok

C7_ModelVersionOnlyWhenSupplied ==
    \A i \in 1..Len(Fetches) :
        LET base == "https://" \o url.model \o ".googleapis.com/" \o url.task
        IN  Fetches[i].url =
                IF url.model = "content-creator" /\ Has(url.requestOptions, "modelVersion")
                THEN base \o "?model_version=" \o url.requestOptions.modelVersion
                ELSE base

----------------------------------------------------------------------------
(* Claims about the content formatter, checked under SpecFormat *)

\* the elements of a request: the string itself, or the elements of the list
RequestElements(request) == IF Has(request, "str") THEN <<request>> ELSE request.arr
IsFunctionResponse(x) == Has(x, "functionResponse")

\* C8: formatting fails when the part list is empty and when it holds a
\* functionResponse part together with another part; otherwise the role is
\* function when every part is a functionResponse and user when none is, and
\* the returned envelope never holds both kinds.
C8_EnvelopeHomogeneity ==
    fn = "_formatNewContent" =>
        LET elems == RequestElements(arg)
            someFn == \E i \in 1..Len(elems) : IsFunctionResponse(elems[i])
            someOther == \E i \in 1..Len(elems) : ~IsFunctionResponse(elems[i])
        IN  /\ elems = <<>> => (~ret.ok /\ ret.name = "Error")
            /\ (someFn /\ someOther) => (~ret.ok /\ ret.name = "Error")
            /\ (someFn /\ ~someOther) => (ret.ok /\ ret.value.role = "function")
            /\ (someOther /\ ~someFn) => (ret.ok /\ ret.value.role = "user")
            /\ ret.ok =>
                   \/ \A i \in 1..Len(ret.value.parts) : IsFunctionResponse(ret.value.parts[i])
                   \/ \A i \in 1..Len(ret.value.parts) : ~IsFunctionResponse(ret.value.parts[i])

C8_Witness ==
    /\ fn = "_formatNewContent"
    /\ arg = [arr |-> <<TextPart("t"), FunctionResponsePart("f")>>]
    /\ ~ret.ok
    /\ ret.message = MixedMessage

\* C9: a string s is formatted to {role: user, parts: [{text: s}]}; a list
\* is formatted element by element in order: the i-th part is {text: x} for a
\* string x and the i-th element itself otherwise, the parts being as many as
\* the elements.
C9_ElementwiseInOrder ==
    (fn = "_formatNewContent" /\ ret.ok) =>
        IF Has(arg, "str")
        THEN ret.value = [role |-> "user", parts |-> <<[text |-> arg.str]>>]
        ELSE /\ Len(ret.value.parts) = Len(arg.arr)
             /\ \A i \in 1..Len(arg.arr) :
                    ret.value.parts[i] =
                        IF Has(arg.arr[i], "str") THEN [text |-> arg.arr[i].str]
                        ELSE arg.arr[i]

C9_Witness ==
    /\ fn = "_formatNewContent"
    /\ arg = [arr |-> <<[str |-> "s"], ImagePart("i"), ImagePart("i")>>]
    /\ ret.ok
    /\ ret.value = [role |-> "user",
                    parts |-> <<TextPart("s"), ImagePart("i"), ImagePart("i")>>]

----------------------------------------------------------------------------
(* Claims about the response helpers, checked under SpecHelpers *)

\* the texts of the text-bearing parts, in order
RECURSIVE TextsInOrder(_)
TextsInOrder(parts) ==
    IF parts = <<>> THEN ""
    ELSE (IF Has(Head(parts), "text") THEN Head(parts).text ELSE "")
         \o TextsInOrder(Tail(parts))

\* C10: text() is the concatenation, in order, of the texts of all
\* text-bearing parts of the first candidate, wherever they stand in the part
\* list, and is empty only when that candidate has no text-bearing part or
\* there is no candidate.
C10_TextConcatenatesAllTextParts ==
    fn = "text" =>
        LET parts == IF Has(arg, "candidates") /\ arg.candidates # <<>>
                     THEN arg.candidates[1].content.parts
                     ELSE <<>>
        IN  ret.value = TextsInOrder(parts)

\* the first part that is a function call, or the string "" when there is none
RECURSIVE FirstFunctionCall(_)
FirstFunctionCall(parts) ==
    IF parts = <<>> THEN [str |-> ""]
    ELSE IF Has(Head(parts), "functionCall") THEN Head(parts).functionCall
    ELSE FirstFunctionCall(Tail(parts))

\* C11: getFunctionCall() is the first function-call part among the parts of
\* the first candidate, at whatever index it stands, and is the empty string
\* only when no part of the first candidate is a function call.
C11_FirstFunctionCallAtAnyIndex ==
    fn = "getFunctionCall" =>
        LET parts == IF Has(arg, "candidates") /\ arg.candidates # <<>>
                     THEN arg.candidates[1].content.parts
                     ELSE <<>>
        IN  ret.value = FirstFunctionCall(parts)

----------------------------------------------------------------------------
(* Further claims about the retry loop, checked under Spec *)

\* the number of POSTs issued before position i of the history
FetchesBefore(i) == Cardinality({j \in 1..(i - 1) : IsFetch(events[j])})

\* C12: a backoff sleep is entered only from a transient failure while
\* attempts remain and is always followed by another POST; the transient
\* failure that leaves no attempt goes to the exhausted failure without
\* sleeping, so no sleep is performed that is not followed by a POST.
C12_SleepOnlyBeforeAnotherAttempt ==
    \A i \in 1..Len(events) :
        IsSleep(events[i]) =>
            /\ \E j \in 1..(i - 1) :
                   /\ IsFetch(events[j])
                   /\ TransientStatus(events[j].code)
                   /\ \A m \in (j + 1)..(i - 1) : ~IsFetch(events[m])
            /\ FetchesBefore(i) < 5
            /\ Terminated => \E j \in (i + 1)..Len(events) : IsFetch(events[j])

\* C13: a run that exhausts the attempt budget sleeps 1, 2, 4, 8 and 16
\* seconds, 31 seconds in all, the longest sleep being 16 seconds; no run
\* sleeps longer than 31 seconds in total.
C13_BackoffSleepsOfExhaustion ==
    /\ SumMs(Sleeps) <= 31000
    /\ \A i \in 1..Len(Sleeps) : Sleeps[i].ms <= 16000
    /\ (pc = "thrown" /\ Len(Fetches) = 5 /\ AllTransientUpTo(5)) =>
           /\ [i \in 1..Len(Sleeps) |-> Sleeps[i].ms] = <<1000, 2000, 4000, 8000, 16000>>
           /\ SumMs(Sleeps) = 31000

C13_Witness ==
    /\ pc = "thrown"
    /\ Len(Fetches) = 5
    /\ Len(Sleeps) = 5
    /\ Sleeps[5].ms = 16000
    /\ SumMs(Sleeps) = 31000

InCall == pc \in {"loop", "break"}

\* C14: whatever statuses the transport returns, a call that has entered
\* _makeRequest ends, in exactly one of success and failure, after at most 5
\* POSTs; the attempts are sequential, the sleep after a POST being over
\* before the next POST; once the call has ended nothing more is posted or
\* slept.
C14_TerminatesWithinFivePosts ==
    /\ [](/\ Len(Fetches) <= 5
          /\ \A n \in 1..(Len(Fetches) - 1) : Len(SleepsAfter(n)) = 1
          /\ \A i \in 1..(Len(events) - 1) :
                 IsFetch(events[i]) => ~IsFetch(events[i + 1])
          /\ Terminated => (result.ok <=> pc = "returned")
          /\ Terminated => (~ENABLED Fetch /\ ~ENABLED Finish))
    /\ [][Terminated => (events' = events /\ pc' = pc /\ result' = result)]_vars
    /\ (InCall ~> Terminated)

C14_Witness ==
    /\ pc = "returned"
    /\ Codes = <<500, 429, 599, 503, 200>>
    /\ result.ok

----------------------------------------------------------------------------
(* Claims about generateContent as a whole, checked under Spec *)

\* params is a part list that is empty or mixes functionResponse parts with others
InvalidPartList(params) ==
    /\ ~Has(params, "contents")
    /\ Has(params, "arr")
    /\ \/ params.arr = <<>>
       \/ /\ \E i \in 1..Len(params.arr) : IsFunctionResponse(params.arr[i])
          /\ \E i \in 1..Len(params.arr) : ~IsFunctionResponse(params.arr[i])

\* C15: generateContent called with params that have no contents field and
\* an empty or mixed part list throws the validation error with no POST, no
\* sleep and no token acquisition, and nothing is retried afterwards.
C15_ValidationErrorBeforeAnyActivity ==
    (pc # "idle" /\ call.entry = "generateContent" /\ InvalidPartList(call.params)) =>
        /\ pc = "thrown"
        /\ ~result.ok
        /\ result.name = "Error"
        /\ result.message \in {MixedMessage, EmptyMessage}
        /\ events = <<>>
        /\ ~ENABLED Next

C15_Witness ==
    /\ pc = "thrown"
    /\ call.entry = "generateContent"
    /\ call.params = [arr |-> <<TextPart("t"), FunctionResponsePart("f")>>]
    /\ result.message = MixedMessage
    /\ events = <<>>

----------------------------------------------------------------------------
(* Claims about the thrown error and the request of each attempt *)

TransientCount == Cardinality({i \in 1..Len(Fetches) : TransientStatus(Codes[i])})

\* C16: in every run of the retry loop that fails, the number in the error is
\* the number of transient responses received, which is the number of sleeps
\* performed: an abort after k transient failures (0 <= k <= 4) reports k
\* although k+1 POSTs were issued, and only on exhaustion is the number (5)
\* the number of POSTs.
C16_ErrorReportsTransientCount ==
    (pc = "thrown" /\ Len(Fetches) > 0) =>
        LET k == TransientCount
            n == Len(Fetches)
        IN  /\ ~result.ok
            /\ result.message = "Failed to call API after " \o ToString(k) \o " retries."
            /\ k = Len(Sleeps)
            /\ PermanentStatus(Codes[n]) => (k \in 0..4 /\ n = k + 1)
            /\ (k = n) <=> (n = 5 /\ AllTransientUpTo(5))

C16_Witness ==
    /\ pc = "thrown"
    /\ Codes = <<503, 429, 404>>
    /\ Len(Sleeps) = 2
    /\ result.message = "Failed to call API after 2 retries."

TokenIndexes == {i \in 1..Len(events) : IsToken(events[i])}

\* C17: within one call of _makeRequest the credential is resolved once,
\* before the first attempt, and every attempt is issued with the same URL,
\* method, headers and payload; a step of the retry loop changes the retry
\* counter, the success flag and the last response, never the url or the
\* request options.
C17_SameRequestOnEveryAttempt ==
    /\ [](InCall \/ Terminated =>
            /\ Cardinality(TokenIndexes) <= 1
            /\ \A t \in TokenIndexes : FetchesBefore(t) = 0
            /\ \A i \in 1..Len(Fetches) :
                   /\ Fetches[i].url = Fetches[1].url
                   /\ Fetches[i].options = Fetches[1].options
                   /\ Fetches[i].options.method = "POST"
                   /\ Fetches[i].options.payload =
                          IF call.entry = "_makeRequest" THEN call.body
                          ELSE IF call.entry = "_countTokens"
                          THEN JSONstringify([contents |-> call.params.contents,
                                              model |-> call.model])
                          ELSE JSONstringify(_formatGenerateContentInput(call.params).value)
                   /\ Fetches[i].options = options)
    /\ [][pc = "loop" => (options' = options /\ url' = url /\ call' = call)]_vars

C17_Witness ==
    /\ pc = "returned"
    /\ Len(Fetches) = 3
    /\ Cardinality(TokenIndexes) = 1
    /\ Fetches[3].options = Fetches[1].options
    /\ Fetches[3].url = Fetches[1].url

----------------------------------------------------------------------------
(* Claim about _formatGenerateContentInput, checked under SpecFormatInput *)

\* C18: params that already have contents are returned unchanged, without
\* any check of their envelopes; any other params that are accepted become
\* {contents: [E]} with the one envelope E that _formatNewContent makes of
\* them, so a body built from a string or a part list has one envelope.
C18_ContentsPassThroughElseOneEnvelope ==
    fn = "_formatGenerateContentInput" =>
        IF Has(arg, "contents")
        THEN ret.ok /\ ret.value = arg
        ELSE /\ ret.ok <=> _formatNewContent(arg).ok
             /\ ret.ok =>
                    /\ DOMAIN ret.value = {"contents"}
                    /\ Len(ret.value.contents) = 1
                    /\ ret.value.contents[1] = _formatNewContent(arg).value
                    /\ ret.value.contents[1].role \in {"user", "function"}
                    /\ Len(ret.value.contents[1].parts) = Len(RequestElements(arg))

C18_Witness ==
    /\ fn = "_formatGenerateContentInput"
    /\ arg = [contents |-> <<[role |-> "user",
                              parts |-> <<TextPart("t"), FunctionResponsePart("f")>>]>>]
    /\ ret.ok
    /\ ret.value = arg

====
